---- MODULE Spec2Model ----
(***************************************************************************)
(* A model of icon-composer/build_svg.py: one run of main(), cut at its    *)
(* blocking operations, with extract_inner, get_viewbox and the placement  *)
(* arithmetic as operators.                                                *)
(*                                                                         *)
(* Text is a sequence of tokens.  "<", ">", "/" and " " are the characters *)
(* themselves; "svg" and "SVG" are the tag name in two letter cases; "a"   *)
(* and "b" are any other markup; "viewBox=A", "viewBox=B" are viewBox      *)
(* attributes with a non-empty quoted value, "viewBox=E" one with an empty *)
(* value, which the pattern of get_viewbox does not match.  The source     *)
(* files do not change while the process runs.                             *)
(*                                                                         *)
(* --main-scale is a double.  A finite scale is num / ScaleDen with        *)
(* ScaleDen a power of two, so that the product with a small integer is    *)
(* exact in double precision and the model's rational is the value Python  *)
(* computes.  nan and inf are kept as kinds of their own.                  *)
(***************************************************************************)
EXTENDS Integers, Sequences, FiniteSets, TLC

VARIABLES
  pc,            \* position in main()
  argv,          \* the command line
  src,           \* the two source files: [base, badge], each a file record
  gc,            \* how the interpreter releases an unreferenced file object
  inkscape,      \* the converter on PATH: "ok", "fails" (exits non-zero) or "absent"
  dest_prior,    \* the destination path before the run: "absent" or "old"
  dest,          \* the destination path now
  doc,           \* what has been written to the destination
  png,           \* the bitmap path: "absent" or "written"
  args,          \* the namespace parse_args returned
  geo,           \* main_w, main_h, main_x, main_y, badge_x, badge_y
  base_inner, badge_inner, base_vb, badge_vb,
  handles,       \* file objects that are open
  ops,           \* the blocking operations performed so far, in order
  stdout, stderr,
  exit_code      \* Running while the process runs, then its exit status

vars == << pc, argv, src, gc, inkscape, dest_prior, dest, doc, png, args, geo,
           base_inner, badge_inner, base_vb, badge_vb, handles, ops,
           stdout, stderr, exit_code >>

---------------------------------------------------------------------------
(* Bounds of the model *)

\* sizes 0 .. MaxRunDim are tried as --main-size in full runs
MaxRunDim == 1
\* canvas sides -MaxDim .. MaxDim in the placement specification
MaxDim == 5
\* finite scales are multiples of 1/2^ScaleBits
ScaleBits == 2
\* scale numerators -MaxScaleNum .. MaxScaleNum
MaxScaleNum == 6
\* longest inner markup, in tokens, in the extraction specification
MaxInner == 4

(* Program constants *)

\* default of --main-size
DefaultMain == 24
\* default of --badge-size
DefaultBadge == 6
\* --main-size and --badge-size of the usage example
UsageMain == 400
UsageBadge == 100

Running == -1

RECURSIVE Pow2(_)
Pow2(n) == IF n = 0 THEN 1 ELSE 2 * Pow2(n - 1)

ScaleDen == Pow2(ScaleBits)

Finite(n) == [kind |-> "finite", num |-> n]
NaN == [kind |-> "nan", num |-> 0]
Inf == [kind |-> "inf", num |-> 1]

\* default of --main-scale: 1.0
DefaultScale == Finite(ScaleDen)

---------------------------------------------------------------------------
(* extract_inner and get_viewbox on text *)

IsSvgName(c) == c \in {"svg", "SVG"}

IsSpace(c) == c = " "

\* index of the first ">" of t at or after position from, 0 if there is none
RECURSIVE FirstGt(_, _)
FirstGt(t, from) ==
  IF from > Len(t) THEN 0
  ELSE IF t[from] = ">" THEN from
  ELSE FirstGt(t, from + 1)

\* re.sub(r'(?is)<svg[^>]*>', '', text)
RECURSIVE SubOpenTag(_)
SubOpenTag(t) ==
  IF t = << >> THEN << >>
  ELSE IF Len(t) >= 3 /\ t[1] = "<" /\ IsSvgName(t[2]) /\ FirstGt(t, 3) # 0
       THEN SubOpenTag(SubSeq(t, FirstGt(t, 3) + 1, Len(t)))
       ELSE << t[1] >> \o SubOpenTag(Tail(t))

\* re.sub(r'(?is)</svg>', '', inner)
RECURSIVE SubCloseTag(_)
SubCloseTag(t) ==
  IF t = << >> THEN << >>
  ELSE IF Len(t) >= 4 /\ t[1] = "<" /\ t[2] = "/" /\ IsSvgName(t[3]) /\ t[4] = ">"
       THEN SubCloseTag(SubSeq(t, 5, Len(t)))
       ELSE << t[1] >> \o SubCloseTag(Tail(t))

RECURSIVE LStrip(_)
LStrip(t) == IF t # << >> /\ IsSpace(t[1]) THEN LStrip(Tail(t)) ELSE t

RECURSIVE RStrip(_)
RStrip(t) ==
  IF t # << >> /\ IsSpace(t[Len(t)]) THEN RStrip(SubSeq(t, 1, Len(t) - 1)) ELSE t

\* str.strip()
Strip(t) == RStrip(LStrip(t))

\* extract_inner once the file has been read
ExtractInnerBug(text) == Strip(SubCloseTag(text))
extract_inner(text) == Strip(SubCloseTag(SubOpenTag(text)))

\* the value group(1) captures for an attribute token that the pattern
\* viewBox=["']([^"']+)["'] matches; << >> for a token it does not match
ViewBoxValue(c) ==
  IF c = "viewBox=A" THEN << 0, 0, 16, 16 >>
  ELSE IF c = "viewBox=B" THEN << 0, 0, 512, 512 >>
  ELSE << >>

\* get_viewbox: re.search takes the leftmost match; None is << >>
RECURSIVE get_viewbox(_)
get_viewbox(text) ==
  IF text = << >> THEN << >>
  ELSE IF ViewBoxValue(text[1]) # << >> THEN ViewBoxValue(text[1])
  ELSE get_viewbox(Tail(text))

---------------------------------------------------------------------------
(* The placement arithmetic of main() *)

\* int(x) of the double n / d, d > 0: truncation toward zero
IntFloor(n, d) == n \div d
IntTrunc(n, d) == IF n >= 0 THEN n \div d ELSE -((-n) \div d)

\* int(size * scale) for a finite scale
ScaledSize(size, scale) == IntTrunc(size * scale.num, ScaleDen)

\* (base_w - main_w) // 2
CenterOffsetBug(total, part) == (total - part + 1) \div 2
CenterOffset(total, part) == (total - part) \div 2

\* "if args.badge_offset:": None is false, a list of two ints is true
BadgeOffsetGivenBug(off) == off # << >> /\ off # << 0, 0 >>
BadgeOffsetGiven(off) == off # << >>

\* lines 58-73 for a finite scale
Geometry(a) ==
  LET base_w == a.main_size[1]
      base_h == a.main_size[2]
      main_w == ScaledSize(base_w, a.main_scale)
      main_h == ScaledSize(base_h, a.main_scale)
  IN [ main_w  |-> main_w,
       main_h  |-> main_h,
       main_x  |-> CenterOffset(base_w, main_w),
       main_y  |-> CenterOffset(base_h, main_h),
       badge_x |-> IF BadgeOffsetGiven(a.badge_offset)
                   THEN a.badge_offset[1] ELSE base_w - a.badge_size[1],
       badge_y |-> IF BadgeOffsetGiven(a.badge_offset)
                   THEN a.badge_offset[2] ELSE base_h - a.badge_size[2] ]

NoGeometry ==
  [ main_w |-> 0, main_h |-> 0, main_x |-> 0, main_y |-> 0,
    badge_x |-> 0, badge_y |-> 0 ]

---------------------------------------------------------------------------
(* Files and the output document *)

File(open, inner, close) ==
  [exists |-> TRUE, open |-> open, inner |-> inner, close |-> close]

\* a path that open() cannot open
Missing == [exists |-> FALSE, open |-> << >>, inner |-> << >>, close |-> << >>]

\* what open(path).read() returns
Text(f) == f.open \o f.inner \o f.close

\* f"0 0 {w} {h}"
DefaultViewBox(w, h) == << 0, 0, w, h >>

\* get_viewbox(args.base) or f"0 0 {main_w} {main_h}"
BaseViewBox(text, g) ==
  IF get_viewbox(text) # << >> THEN get_viewbox(text)
  ELSE DefaultViewBox(g.main_w, g.main_h)

\* get_viewbox(args.badge) or f"0 0 {badge_w} {badge_h}"
BadgeViewBox(text, a) ==
  IF get_viewbox(text) # << >> THEN get_viewbox(text)
  ELSE DefaultViewBox(a.badge_size[1], a.badge_size[2])

\* the text lines 83-92 write
Document(a, g, b_inner, b_vb, d_inner, d_vb) ==
  [ width  |-> a.main_size[1],
    height |-> a.main_size[2],
    matrix   |-> [viewBox |-> b_vb, inner |-> b_inner],
    telegram |-> [viewBox |-> d_vb, inner |-> d_inner],
    use_matrix   |-> [x |-> g.main_x, y |-> g.main_y,
                      width |-> g.main_w, height |-> g.main_h],
    use_telegram |-> [x |-> g.badge_x, y |-> g.badge_y,
                      width |-> a.badge_size[1], height |-> a.badge_size[2]] ]

NoDocument ==
  Document([main_size |-> << 0, 0 >>, badge_size |-> << 0, 0 >>],
           NoGeometry, << >>, << >>, << >>, << >>)

NoArgs ==
  [ main_size |-> << >>, badge_size |-> << >>, badge_offset |-> << >>,
    main_scale |-> NaN, export_png |-> FALSE ]

\* the namespace argparse builds from a well-formed command line
Namespace(v) ==
  [ main_size    |-> IF v.main_size = << >>
                     THEN << DefaultMain, DefaultMain >> ELSE v.main_size,
    badge_size   |-> IF v.badge_size = << >>
                     THEN << DefaultBadge, DefaultBadge >> ELSE v.badge_size,
    badge_offset |-> v.badge_offset,
    main_scale   |-> IF v.main_scale = << >> THEN DefaultScale ELSE v.main_scale[1],
    export_png   |-> v.export_png ]

\* a file object nothing refers to any more: closed at once by a reference
\* counting interpreter, left open until a later collection by any other
Unreferenced(h) == IF gc = "refcount" THEN handles ELSE handles \cup {h}

---------------------------------------------------------------------------
(* main(), one action per step *)

\* line 56: parser.parse_args()
ParseArgs ==
  /\ pc = "start"
  /\ \/ /\ argv.malformed # ""
        /\ stderr' = Append(stderr, "usage")
        /\ exit_code' = 2
        /\ pc' = "done"
        /\ UNCHANGED args
     \/ /\ argv.malformed = ""
        /\ args' = Namespace(argv)
        /\ pc' = "geometry"
        /\ UNCHANGED << stderr, exit_code >>
  /\ UNCHANGED << argv, src, gc, inkscape, dest_prior, dest, doc, png, geo, base_inner,
                  badge_inner, base_vb, badge_vb, handles, ops, stdout >>

\* lines 58-73
ComputeGeometry ==
  /\ pc = "geometry"
  /\ \/ /\ args.main_scale.kind # "finite"     \* int() of nan or inf raises
        /\ stderr' = Append(stderr, "Traceback")
        /\ exit_code' = 1
        /\ pc' = "done"
        /\ UNCHANGED geo
     \/ /\ args.main_scale.kind = "finite"
        /\ geo' = Geometry(args)
        /\ pc' = "extract_base"
        /\ UNCHANGED << stderr, exit_code >>
  /\ UNCHANGED << argv, src, gc, inkscape, dest_prior, dest, doc, png, args, base_inner,
                  badge_inner, base_vb, badge_vb, handles, ops, stdout >>

\* line 76: base_inner = extract_inner(args.base)
ExtractBaseBug ==
  /\ pc = "extract_base"
  /\ base_inner' = IF src.base.exists THEN extract_inner(Text(src.base)) ELSE << >>
  /\ ops' = IF src.base.exists THEN Append(ops, "read:base") ELSE ops
  /\ handles' = IF src.base.exists THEN Unreferenced("base#1") ELSE handles
  /\ pc' = "extract_badge"
  /\ UNCHANGED << argv, src, gc, inkscape, dest_prior, dest, doc, png, args, geo, badge_inner,
                  base_vb, badge_vb, stdout, stderr, exit_code >>
ExtractBase ==
  /\ pc = "extract_base"
  /\ \/ /\ ~src.base.exists                    \* IOError: sys.exit(message)
        /\ stderr' = Append(stderr, "Fehler: Datei nicht gefunden")
        /\ exit_code' = 1
        /\ pc' = "done"
        /\ handles' = {}
        /\ UNCHANGED << base_inner, ops >>
     \/ /\ src.base.exists
        /\ base_inner' = extract_inner(Text(src.base))
        /\ ops' = Append(ops, "read:base")
        /\ handles' = Unreferenced("base#1")
        /\ pc' = "extract_badge"
        /\ UNCHANGED << stderr, exit_code >>
  /\ UNCHANGED << argv, src, gc, inkscape, dest_prior, dest, doc, png, args, geo, badge_inner,
                  base_vb, badge_vb, stdout >>

\* line 77: badge_inner = extract_inner(args.badge)
ExtractBadge ==
  /\ pc = "extract_badge"
  /\ \/ /\ ~src.badge.exists
        /\ stderr' = Append(stderr, "Fehler: Datei nicht gefunden")
        /\ exit_code' = 1
        /\ pc' = "done"
        /\ handles' = {}
        /\ UNCHANGED << badge_inner, ops >>
     \/ /\ src.badge.exists
        /\ badge_inner' = extract_inner(Text(src.badge))
        /\ ops' = Append(ops, "read:badge")
        /\ handles' = Unreferenced("badge#1")
        /\ pc' = "viewbox_base"
        /\ UNCHANGED << stderr, exit_code >>
  /\ UNCHANGED << argv, src, gc, inkscape, dest_prior, dest, doc, png, args, geo, base_inner,
                  base_vb, badge_vb, stdout >>

\* line 78: base_vb = get_viewbox(args.base) or ...
ViewboxBase ==
  /\ pc = "viewbox_base"
  /\ base_vb' = BaseViewBox(Text(src.base), geo)
  /\ ops' = Append(ops, "read:base")
  /\ handles' = Unreferenced("base#2")
  /\ pc' = "viewbox_badge"
  /\ UNCHANGED << argv, src, gc, inkscape, dest_prior, dest, doc, png, args, geo, base_inner,
                  badge_inner, badge_vb, stdout, stderr, exit_code >>

\* line 79: badge_vb = get_viewbox(args.badge) or ...
ViewboxBadge ==
  /\ pc = "viewbox_badge"
  /\ badge_vb' = BadgeViewBox(Text(src.badge), args)
  /\ ops' = Append(ops, "read:badge")
  /\ handles' = Unreferenced("badge#2")
  /\ pc' = "open_output"
  /\ UNCHANGED << argv, src, gc, inkscape, dest_prior, dest, doc, png, args, geo, base_inner,
                  badge_inner, base_vb, stdout, stderr, exit_code >>

\* line 82: open(args.output, 'w') truncates the destination, or raises
OpenOutput ==
  /\ pc = "open_output"
  /\ \/ /\ stderr' = Append(stderr, "Traceback")
        /\ exit_code' = 1
        /\ pc' = "done"
        /\ handles' = {}
        /\ UNCHANGED << dest, ops >>
     \/ /\ dest' = "truncated"
        /\ handles' = handles \cup {"output"}
        /\ ops' = Append(ops, "open:output")
        /\ pc' = "write_output"
        /\ UNCHANGED << stderr, exit_code >>
  /\ UNCHANGED << argv, src, gc, inkscape, dest_prior, doc, png, args, geo, base_inner,
                  badge_inner, base_vb, badge_vb, stdout >>

\* lines 83-94: the writes, the end of the with block, the confirmation
WriteOutputBug ==
  /\ pc = "write_output"
  /\ doc' = Document(args, geo, base_inner, base_vb, badge_inner, badge_vb)
  /\ dest' = "written"
  /\ ops' = Append(ops, "write:output")
  /\ stdout' = Append(stdout, "SVG exportiert")
  /\ pc' = "export_png"
  /\ UNCHANGED << argv, src, gc, inkscape, dest_prior, png, args, geo, base_inner, badge_inner,
                  base_vb, badge_vb, handles, stderr, exit_code >>
WriteOutput ==
  /\ pc = "write_output"
  /\ \/ /\ doc' = Document(args, geo, base_inner, base_vb, badge_inner, badge_vb)
        /\ dest' = "written"
        /\ handles' = handles \ {"output"}
        /\ ops' = Append(ops, "write:output")
        /\ stdout' = Append(stdout, "SVG exportiert")
        /\ pc' = "export_png"
        /\ UNCHANGED << stderr, exit_code >>
     \/ /\ stderr' = Append(stderr, "Traceback")     \* a write raises
        /\ exit_code' = 1
        /\ pc' = "done"
        /\ handles' = {}
        /\ UNCHANGED << doc, dest, ops, stdout >>
  /\ UNCHANGED << argv, src, gc, inkscape, dest_prior, png, args, geo, base_inner, badge_inner,
                  base_vb, badge_vb >>

\* lines 97-110
ExportPngBug ==
  /\ pc = "export_png"
  /\ \/ /\ ~args.export_png
        /\ UNCHANGED << png, ops, stdout >>
     \/ /\ args.export_png
        /\ \/ /\ inkscape = "ok"
              /\ ops' = Append(ops, "run:inkscape")
              /\ png' = "written"
              /\ stdout' = Append(stdout, "PNG exportiert")
           \/ /\ inkscape # "ok"
              /\ UNCHANGED << png, ops, stdout >>
  /\ exit_code' = 0
  /\ pc' = "done"
  /\ handles' = {}
  /\ UNCHANGED << argv, src, gc, inkscape, dest_prior, dest, doc, args, geo, base_inner,
                  badge_inner, base_vb, badge_vb, stderr >>
ExportPng ==
  /\ pc = "export_png"
  /\ \/ /\ ~args.export_png                    \* main() returns
        /\ exit_code' = 0
        /\ UNCHANGED << png, ops, stdout, stderr >>
     \/ /\ args.export_png                     \* inkscape runs and exits 0
        /\ inkscape = "ok"
        /\ ops' = Append(ops, "run:inkscape")
        /\ png' = "written"
        /\ stdout' = Append(stdout, "PNG exportiert")
        /\ exit_code' = 0
        /\ UNCHANGED stderr
     \/ /\ args.export_png                     \* inkscape runs and exits non-zero
        /\ inkscape = "fails"
        /\ ops' = Append(ops, "run:inkscape")
        /\ stderr' = Append(stderr, "Fehler beim PNG-Export")
        /\ exit_code' = 1
        /\ UNCHANGED << png, stdout >>
     \/ /\ args.export_png                     \* inkscape cannot be launched
        /\ inkscape = "absent"
        /\ stderr' = Append(stderr, "Fehler beim PNG-Export")
        /\ exit_code' = 1
        /\ UNCHANGED << png, ops, stdout >>
  /\ pc' = "done"
  /\ handles' = {}
  /\ UNCHANGED << argv, src, gc, inkscape, dest_prior, dest, doc, args, geo, base_inner,
                  badge_inner, base_vb, badge_vb >>

\* a collection closes the file objects nothing refers to
Collect ==
  /\ pc # "done"
  /\ gc = "deferred"
  /\ handles \ {"output"} # {}
  /\ handles' = handles \cap {"output"}
  /\ UNCHANGED << pc, argv, src, gc, inkscape, dest_prior, dest, doc, png, args, geo,
                  base_inner, badge_inner, base_vb, badge_vb, ops, stdout, stderr,
                  exit_code >>

Next ==
  \/ ParseArgs
  \/ ComputeGeometry
  \/ ExtractBase
  \/ ExtractBadge
  \/ ViewboxBase
  \/ ViewboxBadge
  \/ OpenOutput
  \/ WriteOutput
  \/ ExportPng
  \/ Collect

---------------------------------------------------------------------------
(* Inputs *)

OpenPlain   == << "<", "svg", ">" >>
OpenViewBox == << "<", "SVG", " ", "viewBox=A", ">" >>
OpenEmptyVb == << "<", "svg", " ", "viewBox=E", ">" >>
\* an attribute value that holds a ">"
OpenGtAttr  == << "<", "svg", " ", "a", ">", "b", ">" >>
ClosePlain  == << "<", "/", "svg", ">" >>
CloseUpper  == << "<", "/", "SVG", ">", " " >>

\* the source files of a full run
BaseFiles ==
  { Missing,
    File(OpenViewBox, << " ", "a", "b", " " >>, CloseUpper),
    File(OpenPlain, << "a" >>, ClosePlain),
    File(OpenEmptyVb, << "<", "svg", " ", "viewBox=B", ">", "b", "<", "/", "svg", ">" >>,
         ClosePlain) }

BadgeFiles ==
  { Missing,
    File(OpenViewBox, << "b" >>, ClosePlain),
    File(OpenPlain, << "b", "a" >>, CloseUpper) }

RunMainSizes ==
  { << >>, << UsageMain, UsageMain >> } \cup { << d, d - 1 >> : d \in 0 .. MaxRunDim }

RunBadgeSizes == { << >>, << UsageBadge, UsageBadge >> }

RunOffsets == { << >>, << 0, 0 >>, << 2, 2 >>, << -1, 3 >> }

\* absent, 0.5, a negative scale, nan
RunScales == { << >>, << Finite(ScaleDen \div 2) >>, << Finite(-3) >>, << NaN >> }

\* command lines argparse accepts
GoodArgv ==
  [ main_size : RunMainSizes, badge_size : RunBadgeSizes, badge_offset : RunOffsets,
    main_scale : RunScales, export_png : BOOLEAN, malformed : {""} ]

\* command lines with a value that int() or float() rejects
BadArgv ==
  [ main_size : {<< >>}, badge_size : {<< >>}, badge_offset : {<< >>},
    main_scale : {<< >>}, export_png : BOOLEAN,
    malformed : {"--main-size", "--main-scale"} ]

\* the command line that parses to the namespace a
ArgvOf(a) ==
  [ main_size |-> a.main_size, badge_size |-> a.badge_size,
    badge_offset |-> a.badge_offset, main_scale |-> << a.main_scale >>,
    export_png |-> a.export_png, malformed |-> "" ]

\* the state as the process starts
Fresh ==
  /\ dest = dest_prior
  /\ doc = NoDocument
  /\ png = "absent"
  /\ geo = NoGeometry
  /\ base_inner = << >>
  /\ badge_inner = << >>
  /\ base_vb = << >>
  /\ badge_vb = << >>
  /\ handles = {}
  /\ ops = << >>
  /\ stdout = << >>
  /\ stderr = << >>
  /\ exit_code = Running

Init ==
  /\ pc = "start"
  /\ argv \in GoodArgv \cup BadArgv
  /\ src \in [base : BaseFiles, badge : BadgeFiles]
  /\ gc \in {"refcount", "deferred"}
  /\ inkscape \in {"ok", "fails", "absent"}
  /\ dest_prior \in {"absent", "old"}
  /\ args = NoArgs
  /\ Fresh

Spec == Init /\ [][Next]_vars

(* The placement arithmetic alone: main() from line 58, over every canvas  *)
(* and scale of the bounds.                                                *)

Sides == (-MaxDim .. MaxDim) \cup {DefaultMain, UsageMain}

Scales == { Finite(n) : n \in -MaxScaleNum .. MaxScaleNum } \cup {NaN, Inf}

InitGeometry ==
  /\ pc = "geometry"
  /\ args \in [ main_size : Sides \X Sides,
                badge_size : {<< DefaultBadge, DefaultBadge >>},
                badge_offset : {<< >>}, main_scale : Scales, export_png : {FALSE} ]
  /\ argv = ArgvOf(args)
  /\ src = [base |-> File(OpenPlain, << "a" >>, ClosePlain),
            badge |-> File(OpenPlain, << "b" >>, ClosePlain)]
  /\ gc = "refcount"
  /\ inkscape = "absent"
  /\ dest_prior = "absent"
  /\ Fresh

NextGeometry == ComputeGeometry

SpecGeometry == InitGeometry /\ [][NextGeometry]_vars

(* extract_inner alone: main() at line 76, over every inner markup of the  *)
(* bounds inside each wrapping element.                                    *)

InnerTokens == { "<", ">", "/", "svg", "SVG", "a", " " }

RECURSIVE SeqsUpTo(_, _)
SeqsUpTo(S, n) ==
  IF n = 0 THEN { << >> }
  ELSE LET shorter == SeqsUpTo(S, n - 1)
       IN shorter \cup { Append(q, c) : q \in shorter, c \in S }

Wrappers ==
  { << OpenPlain, ClosePlain >>, << OpenViewBox, CloseUpper >>,
    << OpenGtAttr, ClosePlain >> }

WrappedFiles ==
  { File(w[1], inner, w[2]) : w \in Wrappers, inner \in SeqsUpTo(InnerTokens, MaxInner) }

InitExtract ==
  /\ pc = "extract_base"
  /\ args = Namespace(ArgvOf(NoArgs) )
  /\ argv = ArgvOf(NoArgs)
  /\ src \in [base : WrappedFiles \cup {Missing},
              badge : {File(OpenPlain, << "b" >>, ClosePlain)}]
  /\ gc = "refcount"
  /\ inkscape = "absent"
  /\ dest_prior = "absent"
  /\ dest = dest_prior
  /\ doc = NoDocument
  /\ png = "absent"
  /\ geo = Geometry(args)
  /\ base_inner = << >>
  /\ badge_inner = << >>
  /\ base_vb = << >>
  /\ badge_vb = << >>
  /\ handles = {}
  /\ ops = << >>
  /\ stdout = << >>
  /\ stderr = << >>
  /\ exit_code = Running

NextExtract == ExtractBase

SpecExtract == InitExtract /\ [][NextExtract]_vars

---------------------------------------------------------------------------
(* Properties *)

CanvasW == args.main_size[1]
CanvasH == args.main_size[2]
ScaleNum == args.main_scale.num

\* w is the integer part of p / d, d > 0: nearest integer toward zero
IsTruncOf(w, p, d) ==
  IF p >= 0 THEN w * d <= p /\ p < (w + 1) * d
  ELSE (w - 1) * d < p /\ p <= w * d

\* w = floor(p / d), d > 0
IsFloorOf(w, p, d) == w * d <= p /\ p < (w + 1) * d

\* the placement has been computed
Placed == pc = "extract_base"

\* C1 as stated: for every canvas (W,H) and every scale s, negative ones
\* included, width = floor(W*s), height = floor(H*s), x = floor((W-width)/2),
\* y = floor((H-height)/2).
C1_FloorPlacement ==
  Placed =>
    /\ IsFloorOf(geo.main_w, CanvasW * ScaleNum, ScaleDen)
    /\ IsFloorOf(geo.main_h, CanvasH * ScaleNum, ScaleDen)
    /\ IsFloorOf(geo.main_x, CanvasW - geo.main_w, 2)
    /\ IsFloorOf(geo.main_y, CanvasH - geo.main_h, 2)

\* C1 amended: for every canvas (W,H) and every finite scale s, width and
\* height are W*s and H*s truncated toward zero (the floor only when the
\* product is not negative), x = floor((W-width)/2), y = floor((H-height)/2);
\* main-size (400,400) with main-scale 0.5 gives x=100, y=100, width=200,
\* height=200.
C1_TruncPlacement ==
  Placed =>
    /\ IsTruncOf(geo.main_w, CanvasW * ScaleNum, ScaleDen)
    /\ IsTruncOf(geo.main_h, CanvasH * ScaleNum, ScaleDen)
    /\ IsFloorOf(geo.main_x, CanvasW - geo.main_w, 2)
    /\ IsFloorOf(geo.main_y, CanvasH - geo.main_h, 2)
    /\ (args.main_size = << UsageMain, UsageMain >> /\ 2 * ScaleNum = ScaleDen)
         => geo = [ main_w |-> 200, main_h |-> 200, main_x |-> 100, main_y |-> 100,
                    badge_x |-> UsageMain - DefaultBadge,
                    badge_y |-> UsageMain - DefaultBadge ]

\* a negative product that is no whole number: truncation and floor differ
C1_Witness ==
  /\ Placed
  /\ CanvasW = 3 /\ CanvasH = UsageMain /\ ScaleNum = -3
  /\ geo.main_w * ScaleDen > CanvasW * ScaleNum
  /\ geo.main_x = CenterOffset(CanvasW, geo.main_w)

\* C10: for positive W, H and 0 <= s <= 1 the base placement lies inside the
\* canvas, and the right (bottom) margin exceeds the left (top) one by 0 or 1.
C10_InsideAndCentered ==
  (Placed /\ CanvasW > 0 /\ CanvasH > 0 /\ 0 <= ScaleNum /\ ScaleNum <= ScaleDen) =>
    /\ 0 <= geo.main_x /\ geo.main_x + geo.main_w <= CanvasW
    /\ 0 <= geo.main_y /\ geo.main_y + geo.main_h <= CanvasH
    /\ (CanvasW - (geo.main_x + geo.main_w)) - geo.main_x \in {0, 1}
    /\ (CanvasH - (geo.main_y + geo.main_h)) - geo.main_y \in {0, 1}

\* an odd horizontal margin and an even vertical one
C10_Witness ==
  /\ Placed /\ CanvasW > 0 /\ CanvasH > 0 /\ 0 < ScaleNum /\ ScaleNum < ScaleDen
  /\ (CanvasW - (geo.main_x + geo.main_w)) - geo.main_x = 1
  /\ (CanvasH - (geo.main_y + geo.main_h)) - geo.main_y = 0
  /\ geo.main_x > 0

\* the destination holds the composed document
Written == dest = "written"

\* C2: an explicit badge-offset (x,y), (0,0) and negative values included, is
\* the badge placement written to the output whatever W, H, w, h are; without
\* one the placement is (W - w, H - h), (18,18) for the defaults.
C2_BadgePlacement ==
  Written =>
    /\ argv.badge_offset # << >> =>
         << doc.use_telegram.x, doc.use_telegram.y >> = argv.badge_offset
    /\ argv.badge_offset = << >> =>
         /\ doc.use_telegram.x = CanvasW - args.badge_size[1]
         /\ doc.use_telegram.y = CanvasH - args.badge_size[2]
    /\ (argv.badge_offset = << >> /\ argv.main_size = << >> /\ argv.badge_size = << >>)
         => << doc.use_telegram.x, doc.use_telegram.y >> = << 18, 18 >>

\* an explicit offset (0,0) on the usage example's canvas
C2_Witness ==
  /\ Written
  /\ argv.badge_offset = << 0, 0 >>
  /\ argv.main_size = << UsageMain, UsageMain >>
  /\ doc.use_telegram = [x |-> 0, y |-> 0, width |-> DefaultBadge, height |-> DefaultBadge]

\* C3: a source that declares no coordinate box gets "0 0 {width} {height}"
\* of the size requested for its role, (W,H) for the base and (w,h) for the
\* badge, for every main-scale; a declared coordinate box is used unchanged.
C3_RequestedSizeViewBox ==
  Written =>
    /\ doc.matrix.viewBox =
         IF get_viewbox(Text(src.base)) # << >> THEN get_viewbox(Text(src.base))
         ELSE << 0, 0, CanvasW, CanvasH >>
    /\ doc.telegram.viewBox =
         IF get_viewbox(Text(src.badge)) # << >> THEN get_viewbox(Text(src.badge))
         ELSE << 0, 0, args.badge_size[1], args.badge_size[2] >>

SourceMissing == ~src.base.exists \/ ~src.badge.exists

InOps(o) == \E i \in 1 .. Len(ops) : ops[i] = o

InStdout(m) == \E i \in 1 .. Len(stdout) : stdout[i] = m

InStderr(m) == \E i \in 1 .. Len(stderr) : stderr[i] = m

\* C4: with the base or the badge source missing the run ends with a non-zero
\* status before the destination is opened: the destination is as it was,
\* nothing is printed to standard output, the converter is never run.
C4_MissingSource ==
  SourceMissing =>
    /\ pc \in {"start", "geometry", "extract_base", "extract_badge", "done"}
    /\ pc = "done" => exit_code \notin {0, Running}
    /\ dest = dest_prior
    /\ doc = NoDocument
    /\ png = "absent"
    /\ stdout = << >>
    /\ ~InOps("open:output") /\ ~InOps("run:inkscape")

\* the badge is missing, the base has been read, an old destination is kept
C4_Witness ==
  /\ pc = "done"
  /\ src.base.exists /\ ~src.badge.exists
  /\ argv.malformed = "" /\ args.export_png
  /\ dest_prior = "old" /\ dest = "old"
  /\ ops = << "read:base" >>
  /\ exit_code = 1

\* C5: with --export-png and a converter that is absent or exits non-zero, the
\* run ends with a non-zero status, the composed output has been written and
\* closed before the converter is tried and is still there, and the bitmap
\* confirmation is not printed.
C5_ConverterFailure ==
  /\ pc = "export_png" => (Written /\ "output" \notin handles)
  /\ (pc = "done" /\ Written /\ args.export_png /\ inkscape # "ok") =>
       /\ exit_code \notin {0, Running}
       /\ doc = Document(args, geo, base_inner, base_vb, badge_inner, badge_vb)
       /\ InStdout("SVG exportiert")
       /\ ~InStdout("PNG exportiert")
       /\ InStderr("Fehler beim PNG-Export")

\* the converter is not installed
C5_Witness ==
  /\ pc = "done" /\ Written /\ args.export_png /\ inkscape = "absent"
  /\ exit_code = 1
  /\ stdout = << "SVG exportiert" >>
  /\ png = "absent"

\* every step of the run succeeded
AllSucceeded ==
  /\ pc = "done"
  /\ argv.malformed = ""
  /\ InOps("read:base") /\ InOps("read:badge")
  /\ Written
  /\ args.export_png => (inkscape = "ok" /\ png = "written")

C8_CanvasPositive ==
  (pc # "start" /\ argv.malformed = "") => (CanvasW > 0 /\ CanvasH > 0)

Count(o) == Cardinality({ i \in 1 .. Len(ops) : ops[i] = o })

IsPrefix(p, q) == Len(p) <= Len(q) /\ p = SubSeq(q, 1, Len(p))

\* C9 as stated, its count of operations: a successful run reads exactly two
\* source files, one per input, writes the destination once and runs the
\* converter once iff --export-png.
C9_TwoReads ==
  exit_code = 0 =>
    /\ Count("read:base") = 1 /\ Count("read:badge") = 1
    /\ Count("open:output") = 1 /\ Count("write:output") = 1
    /\ Count("run:inkscape") = IF args.export_png THEN 1 ELSE 0

\* the blocking operations of a whole run, in order
FullOps ==
  << "read:base", "read:badge", "read:base", "read:badge", "open:output",
     "write:output" >> \o (IF args.export_png THEN << "run:inkscape" >> ELSE << >>)

\* C9 amended: a successful run reads each source twice (base, badge, base,
\* badge), then opens and writes the destination once, then runs the
\* converter iff --export-png, in this order; the destination's handle is
\* open only during the write; the sources' handles are never closed by the
\* program, so that at most one handle is open at a time only where the
\* interpreter closes an unreferenced file at once.
C9_FourReads ==
  /\ IsPrefix(ops, FullOps)
  /\ exit_code = 0 => ops = FullOps
  /\ "output" \in handles <=> pc = "write_output"
  /\ gc = "refcount" => Cardinality(handles) <= 1

\* a successful run with the converter
C9_Witness ==
  /\ exit_code = 0 /\ args.export_png
  /\ Len(ops) = 7 /\ ops[3] = "read:base" /\ ops[7] = "run:inkscape"

\* the file is one wrapping element whose opening tag ends at its first ">"
\* and whose inner markup holds neither "<svg" nor "</svg>" in any letter case
WellWrapped(f) ==
  /\ FirstGt(f.open, 1) = Len(f.open)
  /\ \A i \in 1 .. Len(f.inner) - 1 : ~(f.inner[i] = "<" /\ IsSvgName(f.inner[i + 1]))
  /\ \A i \in 1 .. Len(f.inner) - 3 :
        ~(f.inner[i] = "<" /\ f.inner[i + 1] = "/" /\ IsSvgName(f.inner[i + 2])
            /\ f.inner[i + 3] = ">")

\* extract_inner has returned
Extracted == pc = "extract_badge"

\* C7 as stated: for a single wrapping element around arbitrary inner markup
\* extract_inner returns the inner markup, trimmed, and nothing else is
\* removed.
C7_ArbitraryInner == Extracted => base_inner = Strip(src.base.inner)

\* C7 amended: for a single wrapping element whose opening tag holds no ">"
\* before its end and whose inner markup holds neither "<svg" nor "</svg>" in
\* any letter case, extract_inner returns the inner markup, trimmed, and
\* nothing else is removed.
C7_PlainInner ==
  (Extracted /\ WellWrapped(src.base)) => base_inner = Strip(src.base.inner)

\* an upper-case tag with attributes around markup that holds "<", "/", ">"
C7_Witness ==
  /\ Extracted /\ WellWrapped(src.base)
  /\ src.base.open = OpenViewBox
  /\ src.base.inner = << " ", "<", "/", ">" >>
  /\ base_inner = << "<", "/", ">" >>

====
